---- MODULE Spec2Model ----
(***************************************************************************)
(* Model of the signup-sync service: FunnelSyncService.sync_easyappoint-   *)
(* ments, _fetch_easyappointments, _add_to_pending_signups and             *)
(* sync_all_sources (src/app/services/funnel_sync_service.py) running on   *)
(* a PostgreSQL session opened by get_db_context                           *)
(* (src/app/database/connection.py).                                       *)
(*                                                                         *)
(* Python None / SQL NULL is the string None for text fields and NullTime  *)
(* for timestamps; a dict key that is absent or None is an absent record   *)
(* field (dict.get returns None for both).  Text that the code transforms  *)
(* (the email) is a sequence of characters.                                *)
(***************************************************************************)
EXTENDS Integers, Sequences, FiniteSets, TLC

\* ------------------------------------------------------------------ bounds
MaxBooked == 3      \* appointments booked in the external system
MaxRuns == 2        \* invocations of sync_easyappointments

\* ------------------------------------------------------- program constants
sync_window_days == 7
StartClock == sync_window_days

None == "None"
NullTime == 0 - 1

\* ----------------------------------------------------------------- strings
LowerChar(c) ==
    CASE c = "A" -> "a"
      [] c = "B" -> "b"
      [] c = "E" -> "e"
      [] c = "R" -> "r"
      [] c = "X" -> "x"
      [] OTHER -> c

\* the email used as it came, without the case-folding
LowerSkipped(s) == s

\* str.lower()
Lower(s) == [n \in DOMAIN s |-> LowerChar(s[n])]

\* dict.get(key): None when the key is absent
Get(d, key) == IF key \in DOMAIN d THEN d[key] ELSE None

\* truthiness of an optional text value
Truthy(v) == v # None /\ v # ""

\* `if email is None`: only the absent key counts as no email
HasEmailKeyOnly(appointment) == "email" \in DOMAIN appointment

\* `if not email`: the key is absent/None or the string is empty
HasEmail(appointment) ==
    "email" \in DOMAIN appointment /\ appointment.email # <<>>

\* a or b
Or(a, b) == IF Truthy(a) THEN a ELSE b

\* float(x) raises ValueError unless x is numeric
IsNumeric(x) == x \in {"10", "20"}

Float(x) ==
    CASE x = "10" -> "10.0"
      [] x = "20" -> "20.0"
      [] OTHER -> None

\* `float(price) if price else None` raises for a truthy non-numeric price
MetadataRaises(appointment) ==
    Truthy(Get(appointment, "price")) /\ ~IsNumeric(Get(appointment, "price"))

\* the json.dumps({...}) snapshot of the source record
Metadata(appointment) ==
    [source |-> "easyappointments",
     appointment_id |-> appointment.appointment_id,
     service_price |-> IF Truthy(Get(appointment, "price"))
                          THEN Float(Get(appointment, "price")) ELSE None,
     phone |-> Or(Get(appointment, "mobile_number"),
                  Get(appointment, "phone_number"))]

\* the incoming value always written, NULL included
CoalesceOverwrites(new, old) == new

\* COALESCE(new, old)
Coalesce(new, old) == IF new # None THEN new ELSE old

\* ------------------------------------------------- the external customers
\* rows the EasyAppointments users/services tables can hold
Customers ==
    { [email |-> <<"A", "x">>, first_name |-> "Jane", mobile_number |-> "m1",
       price |-> "10"],
      [email |-> <<"a", "X">>, last_name |-> "Doe", phone_number |-> "p2"],
      [email |-> <<"b", "x">>, first_name |-> "Bob", price |-> "20"],
      [first_name |-> "Nomail", phone_number |-> "p3"],
      [email |-> <<"b", "x">>, last_name |-> "Bad", price |-> "abc"] }

\* rows without a usable email: the column NULL, the column empty
Unidentified ==
    { [first_name |-> "Nomail", phone_number |-> "p3"],
      [email |-> <<>>, first_name |-> "Empty"],
      [email |-> <<"b", "x">>, first_name |-> "Bob", price |-> "20"] }


\* ------------------------------------------------------------------- state
VARIABLES
    now,                    \* datetime.utcnow() / NOW()
    ea,                     \* the EasyAppointments appointments, in booking order
    funnel_sources,         \* committed rows of funnel_sources, by id
    pending_signup_queue,   \* committed rows of pending_signup_queue
    funnel_sync_logs,       \* committed rows of funnel_sync_logs
    db,                     \* the session of get_db_context: uncommitted writes
    pc,                     \* position of sync_easyappointments
    run,                    \* locals of sync_easyappointments
    caller,                 \* who awaits sync_easyappointments
    all,                    \* frame of sync_all_sources
    http,                   \* the last response sent by an endpoint
    runs,                   \* invocations of sync_easyappointments so far
    returned,               \* history: the appointments the adapter returned
                            \* to runs that committed
    peer                    \* a run of sync_easyappointments in another worker

vars == <<now, ea, funnel_sources, pending_signup_queue, funnel_sync_logs, db,
          pc, run, caller, all, http, runs, returned, peer>>

store == <<funnel_sources, pending_signup_queue, funnel_sync_logs>>

SourceIds == {1, 2}

\* the dispatch table walked in sorted order of its keys
sync_methodsSorted == <<"easyappointments", "eventbrite", "poshvip", "zoom">>

\* the declared dispatch table of sync_all_sources, in declaration order
sync_methods == <<"easyappointments", "zoom", "eventbrite", "poshvip">>

\* ----------------------------------------------------------- the session
NoSession ==
    [open |-> FALSE, began |-> NullTime, ins |-> <<>>, upd |-> {}, src |-> {},
     logs |-> <<>>, failed |-> FALSE]

\* SessionLocal(): autocommit=False; the transaction begins with the first
\* statement, and NOW() is the time it began
NewSession(began) == [NoSession EXCEPT !.open = TRUE, !.began = began]

IdsOf(rows) == {r.id : r \in rows}

Range(s) == {s[n] : n \in DOMAIN s}

\* what a statement of the session reads (READ COMMITTED): the latest
\* committed rows, with this session's own row versions and inserts
ViewOf(committed, session) ==
    [n \in DOMAIN committed |->
        IF committed[n].id \in IdsOf(session.upd)
        THEN CHOOSE r \in session.upd : r.id = committed[n].id
        ELSE committed[n]] \o session.ins

View == ViewOf(pending_signup_queue, db)

SourceView(session, id) ==
    IF id \in IdsOf(session.src)
    THEN CHOOSE r \in session.src : r.id = id
    ELSE funnel_sources[id]

\* uuid.uuid4() / gen_random_uuid(): an id no row carries
NewSignupId == 11 + Len(pending_signup_queue) + Len(db.ins)

NewLogId == 21 + Len(funnel_sync_logs) + Len(db.logs)

NoRun ==
    [force_sync |-> FALSE, started_at |-> NullTime, source_id |-> 0,
     sync_from |-> NullTime, existing |-> 0, appointments |-> <<>>, idx |-> 1,
     leads_created |-> 0, leads_updated |-> 0, leads_skipped |-> 0,
     errors |-> <<>>]

NoAll == [k |-> 0, request |-> [force_sync |-> FALSE], results |-> <<>>]

NoHttp == [status_code |-> 0]

NoPeer ==
    [pc |-> "idle", began |-> NullTime, source_id |-> 0, ins |-> <<>>,
     leads_created |-> 0, errors |-> <<>>, failed |-> FALSE,
     committed |-> FALSE]

InitWith(customers) ==
    /\ now = StartClock
    /\ \E n \in 0..MaxBooked : \E cs \in [1..n -> customers] :
         ea = [m \in 1..n |->
                 cs[m] @@ [appointment_id |-> m, book_datetime |-> now]]
    /\ \E active \in BOOLEAN :
       \E configured \in {"easyappointments", "eventbrite"} :
         funnel_sources =
           [id \in SourceIds |->
              [id |-> id,
               source_type |-> IF id = 1 THEN configured ELSE "zoom",
               is_active |-> IF id = 1 THEN active ELSE TRUE,
               last_sync_at |-> NullTime,
               last_sync_status |-> None,
               total_leads_captured |-> 0]]
    /\ pending_signup_queue = <<>>
    /\ funnel_sync_logs = <<>>
    /\ db = NoSession
    /\ pc = "idle"
    /\ run = NoRun
    /\ caller = "none"
    /\ all = NoAll
    /\ http = NoHttp
    /\ runs = 0
    /\ returned = {}
    /\ peer = NoPeer

Init == InitWith(Customers)

InitUnidentified == InitWith(Unidentified)


\* ------------------------------------------------------------ environment
\* A run takes time: the clock that sync_easyappointments read on entry has
\* advanced when it reads it again for the ledger, after the round trips to
\* both databases.  Every comparison of the code is between a booking time
\* and a time read by a run, so time that passes while no run is active
\* changes no outcome and is left out.
Elapse == now' = now + 1

\* the admin approver decides a pending signup, in a transaction of its own;
\* it waits while the row is locked by an uncommitted UPDATE of the session
Approve ==
    /\ \E n \in DOMAIN pending_signup_queue :
       \E decision \in {"approved", "rejected"} :
         /\ pending_signup_queue[n].status = "pending"
         /\ pending_signup_queue[n].id \notin IdsOf(db.upd)
         /\ pending_signup_queue' =
              [pending_signup_queue EXCEPT ![n].status = decision]
    /\ UNCHANGED <<now, ea, returned, peer, funnel_sources, funnel_sync_logs,
                   db, pc, run, caller, all, http, runs>>

\* the customers who book while the service is running
Bookers == {c \in Customers : HasEmail(c) /\ "first_name" \in DOMAIN c}

\* a customer books an appointment in EasyAppointments, which stamps
\* book_datetime with the current time
Book ==
    /\ Len(ea) < MaxBooked
    /\ \E c \in Bookers :
         ea' = Append(ea, c @@ [appointment_id |-> Len(ea) + 1,
                                book_datetime |-> now])
    /\ UNCHANGED <<now, returned, peer, store, db, pc, run, caller, all,
                   http, runs>>

\* ------------------------------------------------- sync_easyappointments
\* an exception of one source ends the whole loop of sync_all_sources
DeliverStops(who, result, raised) ==
    /\ pc' = "idle"
    /\ run' = NoRun
    /\ caller' = "none"
    /\ IF who = "all"
       THEN /\ all' = [all EXCEPT
                         !.k = IF raised THEN Len(sync_methods) + 1 ELSE @ + 1,
                         !.results = Append(@,
                            IF raised
                            THEN [status |-> "failed",
                                  source_type |-> "easyappointments",
                                  error |-> result.error]
                            ELSE result)]
            /\ http' = http
       ELSE /\ http' = IF raised
                       THEN [status_code |-> 500, detail |-> result.error]
                       ELSE [status_code |-> 200, body |-> result]
            /\ all' = all

\* what the awaiting caller makes of the outcome: the endpoint answers 200
\* with the result or 500 with the error; sync_all_sources appends the
\* result or a failed entry and goes on with the next source
Deliver(who, result, raised) ==
    /\ pc' = "idle"
    /\ run' = NoRun
    /\ caller' = "none"
    /\ IF who = "all"
       THEN /\ all' = [all EXCEPT
                         !.k = @ + 1,
                         !.results = Append(@,
                            IF raised
                            THEN [status |-> "failed",
                                  source_type |-> "easyappointments",
                                  error |-> result.error]
                            ELSE result)]
            /\ http' = http
       ELSE /\ http' = IF raised
                       THEN [status_code |-> 500, detail |-> result.error]
                       ELSE [status_code |-> 200, body |-> result]
            /\ all' = all

\* the session committed on the way out of a failure instead of rolled back
RaiseCommits(who, error) ==
    /\ pending_signup_queue' = View
    /\ funnel_sources' = [id \in SourceIds |-> SourceView(db, id)]
    /\ funnel_sync_logs' = funnel_sync_logs \o db.logs
    /\ db' = NoSession
    /\ Deliver(who, [error |-> error], TRUE)

\* the failure recorded as a SyncRun row on the way out
RaiseLogsFailure(who, error) ==
    /\ db' = NoSession
    /\ funnel_sync_logs' =
         Append(funnel_sync_logs,
                [id |-> NewLogId, funnel_source_id |-> run.source_id,
                 sync_type |-> "automatic", sync_status |-> "failed",
                 leads_processed |-> 0, leads_created |-> 0,
                 leads_updated |-> 0, leads_skipped |-> 0, errors_count |-> 1,
                 error_messages |-> <<error>>, started_at |-> run.started_at,
                 completed_at |-> now])
    /\ UNCHANGED <<funnel_sources, pending_signup_queue>>
    /\ Deliver(who, [error |-> error], TRUE)

\* the failure recorded on the source row on the way out
RaiseMarksSource(who, error) ==
    /\ db' = NoSession
    /\ funnel_sources' =
         [id \in SourceIds |->
            IF id = run.source_id
            THEN [funnel_sources[id] EXCEPT !.last_sync_at = now,
                                            !.last_sync_status = "failed"]
            ELSE funnel_sources[id]]
    /\ UNCHANGED <<pending_signup_queue, funnel_sync_logs>>
    /\ Deliver(who, [error |-> error], TRUE)

\* an exception leaves the with block: rollback, close, re-raise
Raise(who, error) ==
    /\ db' = NoSession
    /\ UNCHANGED store
    /\ Deliver(who, [error |-> error], TRUE)

\* the lookup without `AND is_active = true`
ActiveSourcesAnyRow(source_type) ==
    {s \in SourceIds : funnel_sources[s].source_type = source_type}

\* WHERE source_type = :source_type AND is_active = true
ActiveSources(source_type) ==
    {s \in SourceIds : /\ funnel_sources[s].source_type = source_type
                       /\ funnel_sources[s].is_active}

\* the stored watermark used whenever there is one, forced or not
SyncFromIgnoresForce(utcnow, force_sync, last_sync) ==
    IF last_sync = NullTime THEN utcnow - sync_window_days ELSE last_sync

\* the fetch window lower bound
SyncFrom(utcnow, force_sync, last_sync) ==
    IF force_sync \/ last_sync = NullTime
    THEN utcnow - sync_window_days
    ELSE last_sync

\* entry of sync_easyappointments up to the call of the adapter
Start(who, force_sync) ==
    /\ pc = "idle"
    /\ runs < MaxRuns
    /\ runs' = runs + 1
    /\ UNCHANGED <<now, ea, returned, peer>>
    /\ IF ActiveSources("easyappointments") = {}
       THEN Raise(who, "No active funnel source found")
       ELSE \E s \in ActiveSources("easyappointments") :
              /\ db' = NewSession(now)
              /\ pc' = "fetch"
              /\ caller' = who
              /\ run' = [NoRun EXCEPT
                           !.force_sync = force_sync,
                           !.started_at = now,
                           !.source_id = s,
                           !.sync_from =
                              SyncFrom(now, force_sync,
                                       funnel_sources[s].last_sync_at)]
              /\ http' = IF who = "endpoint" THEN NoHttp ELSE http
              /\ UNCHANGED <<store, all>>

\* POST /sync/easyappointments
EndpointSync ==
    /\ caller = "none"
    /\ all.k = 0
    /\ \E force_sync \in BOOLEAN : Start("endpoint", force_sync)

\* POST /sync/easyappointments with the default force_sync = False, the
\* periodic incremental sync
ScheduledSync ==
    /\ caller = "none"
    /\ all.k = 0
    /\ Start("endpoint", FALSE)

\* WHERE a.book_datetime >= %s ORDER BY a.book_datetime ASC
FetchResult(sync_from) ==
    SelectSeq(ea, LAMBDA a : a.book_datetime >= sync_from)

\* _fetch_easyappointments returns the appointments of the window
Fetch ==
    /\ pc = "fetch"
    /\ pc' = "loop"
    /\ run' = [run EXCEPT !.appointments = FetchResult(run.sync_from),
                          !.existing = Len(ea)]
    /\ UNCHANGED <<now, ea, returned, peer, store, db, caller, all, http,
                   runs>>

\* _fetch_easyappointments raises (connection, credentials, query)
FetchFails ==
    /\ pc = "fetch"
    /\ Raise(caller, "AdapterError")
    /\ UNCHANGED <<now, ea, returned, peer, runs>>


\* ------------------------------------------------ _add_to_pending_signups
\* the batch walked from its last appointment to its first
AppointmentReversed == run.appointments[Len(run.appointments) + 1 - run.idx]

\* the appointment of the current loop iteration
Appointment == run.appointments[run.idx]

\* the tally with `if` in place of `elif`: a created record is counted as
\* skipped as well
TallyWithoutElif(result) ==
    [run EXCEPT
       !.idx = @ + 1,
       !.leads_created = IF result = "created" THEN @ + 1 ELSE @,
       !.leads_updated = IF result = "updated" THEN @ + 1 ELSE @,
       !.leads_skipped = IF result # "updated" THEN @ + 1 ELSE @]

\* lines 85-90: the tally of a returned outcome, then the next iteration
Tally(result) ==
    [run EXCEPT
       !.idx = @ + 1,
       !.leads_created = IF result = "created" THEN @ + 1 ELSE @,
       !.leads_updated = IF result = "updated" THEN @ + 1 ELSE @,
       !.leads_skipped = IF result \notin {"created", "updated"}
                         THEN @ + 1 ELSE @]

\* lines 91-93: the exception is logged and appended, then the next iteration
Caught(error) ==
    [run EXCEPT !.idx = @ + 1, !.errors = Append(@, error)]

\* the lookup by the email as it came
ExistingKeepsCase(email) == {r \in Range(View) : r.email = email}

\* SELECT id, status FROM pending_signup_queue WHERE email = :email
Existing(email) == {r \in Range(View) : r.email = Lower(email)}

\* lines 249-264: no email, the lookup, and the skip of a decided signup;
\* a statement in a transaction that a failed statement has aborted raises
Select ==
    /\ pc = "loop"
    /\ run.idx <= Len(run.appointments)
    /\ IF ~HasEmail(Appointment)
       THEN pc' = "loop" /\ run' = Tally("skipped")
       ELSE IF db.failed
       THEN pc' = "loop" /\ run' = Caught("InFailedSqlTransaction")
       ELSE IF Existing(Appointment.email) = {}
       THEN pc' = "insert" /\ run' = run
       ELSE \E existing \in Existing(Appointment.email) :
              IF existing.status \in {"approved", "rejected"}
              THEN pc' = "loop" /\ run' = Tally("skipped")
              ELSE pc' = "update" /\ run' = run
    /\ UNCHANGED <<now, ea, returned, peer, store, db, caller, all, http,
                   runs>>

\* the UPDATE putting the signup back to pending with the refreshed fields
SetClauseResetsStatus(row, appointment) ==
    [row EXCEPT
       !.first_name = Coalesce(Get(appointment, "first_name"), @),
       !.last_name = Coalesce(Get(appointment, "last_name"), @),
       !.signup_metadata = Metadata(appointment),
       !.status = "pending",
       !.updated_at = db.began]

\* the SET clause of lines 269-273
SetClause(row, appointment) ==
    [row EXCEPT
       !.first_name = Coalesce(Get(appointment, "first_name"), @),
       !.last_name = Coalesce(Get(appointment, "last_name"), @),
       !.signup_metadata = Metadata(appointment),
       !.updated_at = db.began]

\* the UPDATE without its WHERE clause
UpdateRowsNoWhere(session, email, appointment) ==
    [session EXCEPT
       !.ins = [n \in DOMAIN @ |-> SetClause(@[n], appointment)],
       !.upd = {SetClause(ViewOf(pending_signup_queue, session)[n],
                          appointment) : n \in DOMAIN pending_signup_queue}]

\* UPDATE pending_signup_queue SET ... WHERE email = :email, on the latest
\* version of every matching row
UpdateRows(session, email, appointment) ==
    [session EXCEPT
       !.ins = [n \in DOMAIN @ |->
                  IF @[n].email = email
                  THEN SetClause(@[n], appointment) ELSE @[n]],
       !.upd = {r \in @ : r.email # email} \cup
               {SetClause(ViewOf(pending_signup_queue, session)[n],
                          appointment) :
                  n \in {m \in DOMAIN pending_signup_queue :
                           pending_signup_queue[m].email = email}}]

\* lines 266-293
Update ==
    /\ pc = "update"
    /\ pc' = "loop"
    /\ IF MetadataRaises(Appointment)
       THEN db' = db /\ run' = Caught("ValueError")
       ELSE /\ db' = UpdateRows(db, Lower(Appointment.email), Appointment)
            /\ run' = Tally("updated")
    /\ UNCHANGED <<now, ea, returned, peer, store, caller, all, http, runs>>

\* the INSERT with the email as it came
NewSignupKeepsCase(id, appointment) ==
    [id |-> id,
     email |-> appointment.email,
     first_name |-> Get(appointment, "first_name"),
     last_name |-> Get(appointment, "last_name"),
     company |-> Get(appointment, "company"),
     user_type |-> "brand",
     status |-> "pending",
     signup_metadata |-> Metadata(appointment),
     created_at |-> db.began,
     updated_at |-> db.began]

\* the VALUES clause of lines 303-306
NewSignup(id, appointment) ==
    [id |-> id,
     email |-> Lower(appointment.email),
     first_name |-> Get(appointment, "first_name"),
     last_name |-> Get(appointment, "last_name"),
     company |-> Get(appointment, "company"),
     user_type |-> "brand",
     status |-> "pending",
     signup_metadata |-> Metadata(appointment),
     created_at |-> db.began,
     updated_at |-> db.began]

\* the INSERT followed by a db.commit() of its own
InsertCommits ==
    /\ pc = "insert"
    /\ pc' = "loop"
    /\ IF MetadataRaises(Appointment)
       THEN /\ db' = db /\ run' = Caught("ValueError")
            /\ pending_signup_queue' = pending_signup_queue
       ELSE /\ pending_signup_queue' =
                 Append(View, NewSignup(NewSignupId, Appointment))
            /\ db' = [db EXCEPT !.ins = <<>>, !.upd = {}]
            /\ run' = Tally("created")
    /\ UNCHANGED <<now, ea, returned, peer, funnel_sources, funnel_sync_logs,
                   caller, all, http, runs>>

\* lines 295-329
Insert ==
    /\ pc = "insert"
    /\ pc' = "loop"
    /\ IF MetadataRaises(Appointment)
       THEN db' = db /\ run' = Caught("ValueError")
       ELSE /\ db' = [db EXCEPT
                        !.ins = Append(@, NewSignup(NewSignupId, Appointment))]
            /\ run' = Tally("created")
    /\ UNCHANGED <<now, ea, returned, peer, store, caller, all, http, runs>>

\* the store rejects the INSERT or UPDATE (a constraint of the table): the
\* statement raises, the except of lines 331-333 re-raises, and PostgreSQL
\* keeps the transaction of the session (autocommit=False, no savepoint)
\* aborted until it is rolled back
WriteFails ==
    /\ pc \in {"insert", "update"}
    /\ ~MetadataRaises(Appointment)
    /\ pc' = "loop"
    /\ db' = [db EXCEPT !.failed = TRUE]
    /\ run' = Caught("IntegrityError")
    /\ UNCHANGED <<now, ea, returned, peer, store, caller, all, http, runs>>

\* ------------------------------------------------------------- the ledger
\* the aggregate status taken for success whatever the errors
StatusIgnoresErrors(errors) == "success"

\* "success" if not errors else "partial"
Status(errors) == IF errors = <<>> THEN "success" ELSE "partial"

\* the watermark set to the start of the fetch window
LedgerRowWindowStart(source) ==
    [source EXCEPT
       !.last_sync_at = run.sync_from,
       !.last_sync_status = Status(run.errors),
       !.total_leads_captured = @ + run.leads_created]

\* the total set to the created count of the run instead of raised by it
LedgerRowSetsTotal(source) ==
    [source EXCEPT
       !.last_sync_at = now',
       !.last_sync_status = Status(run.errors),
       !.total_leads_captured = run.leads_created]

\* a forced run moving the watermark back to the start of its window
LedgerRowForcedWindow(source) ==
    [source EXCEPT
       !.last_sync_at = IF run.force_sync THEN run.sync_from ELSE now',
       !.last_sync_status = Status(run.errors),
       !.total_leads_captured = @ + run.leads_created]

\* the SET clause of lines 98-102
LedgerRow(source) ==
    [source EXCEPT
       !.last_sync_at = now',
       !.last_sync_status = Status(run.errors),
       !.total_leads_captured = @ + run.leads_created]

\* the VALUES clause of lines 120-139
SyncLog ==
    [id |-> NewLogId,
     funnel_source_id |-> run.source_id,
     sync_type |-> "automatic",
     sync_status |-> Status(run.errors),
     leads_processed |-> Len(run.appointments),
     leads_created |-> run.leads_created,
     leads_updated |-> run.leads_updated,
     leads_skipped |-> run.leads_skipped,
     errors_count |-> Len(run.errors),
     error_messages |-> run.errors,
     started_at |-> run.started_at,
     completed_at |-> now']

\* lines 95-140, after the last appointment: the watermark and the audit row
Ledger ==
    /\ pc = "loop"
    /\ run.idx > Len(run.appointments)
    /\ Elapse
    /\ UNCHANGED <<ea, returned, peer, runs>>
    /\ IF db.failed
       THEN Raise(caller, "InFailedSqlTransaction")
       ELSE /\ pc' = "commit"
            /\ db' = [db EXCEPT
                        !.src = {LedgerRow(SourceView(db, run.source_id))},
                        !.logs = Append(@, SyncLog)]
            /\ UNCHANGED <<store, run, caller, all, http>>

\* the dict of lines 144-159
Result ==
    [status |-> Status(run.errors),
     source_type |-> "easyappointments",
     leads_processed |-> Len(run.appointments),
     leads_created |-> run.leads_created,
     leads_updated |-> run.leads_updated,
     leads_skipped |-> run.leads_skipped,
     errors_count |-> Len(run.errors),
     started_at |-> run.started_at,
     completed_at |-> now,
     sync_log_id |-> run.source_id,
     error_messages |-> run.errors]

\* the commit keeping the latest SyncRun row only
CommitKeepsLatestLog ==
    /\ pc = "commit"
    /\ pending_signup_queue' = View
    /\ funnel_sources' = [id \in SourceIds |-> SourceView(db, id)]
    /\ funnel_sync_logs' = db.logs
    /\ db' = NoSession
    /\ Deliver(caller, Result, FALSE)
    /\ returned' = returned \cup
         {run.appointments[n].appointment_id : n \in DOMAIN run.appointments}
    /\ UNCHANGED <<now, ea, runs, peer>>

\* db.commit() of line 142 and the return; the writes of the session become
\* the committed rows
Commit ==
    /\ pc = "commit"
    /\ pending_signup_queue' = View
    /\ funnel_sources' = [id \in SourceIds |-> SourceView(db, id)]
    /\ funnel_sync_logs' = funnel_sync_logs \o db.logs
    /\ db' = NoSession
    /\ Deliver(caller, Result, FALSE)
    /\ returned' = returned \cup
         {run.appointments[n].appointment_id : n \in DOMAIN run.appointments}
    /\ UNCHANGED <<now, ea, runs, peer>>

\* ------------------------------------------------------- sync_all_sources
\* the query parameter `sources` of POST /sync/all
Requests ==
    {[force_sync |-> f] : f \in BOOLEAN} \cup
    {[force_sync |-> f, source_types |-> t] :
        f \in BOOLEAN,
        t \in {<<"easyappointments", "zoom">>,
               <<"poshvip", "bogus", "zoom", "poshvip">>}}

\* source_types is None or source_type in source_types
Requested(request, source_type) ==
    \/ "source_types" \notin DOMAIN request
    \/ source_type \in Range(request.source_types)

\* _placeholder_sync_response
PlaceholderSyncResponse(source_type) ==
    [status |-> "success",
     source_type |-> source_type,
     leads_processed |-> 0,
     leads_created |-> 0,
     leads_updated |-> 0,
     leads_skipped |-> 0,
     errors_count |-> 0,
     started_at |-> now,
     completed_at |-> now,
     sync_log_id |-> 0,
     error_messages |-> <<>>]

\* POST /sync/all enters sync_all_sources
AllStart ==
    /\ caller = "none"
    /\ all.k = 0
    /\ runs < MaxRuns
    /\ \E request \in Requests :
         all' = [k |-> 1, request |-> request, results |-> <<>>]
    /\ http' = NoHttp
    /\ UNCHANGED <<now, ea, returned, peer, store, db, pc, run, caller, runs>>

\* one iteration of the loop over sync_methods
AllStep ==
    /\ caller = "none"
    /\ all.k \in DOMAIN sync_methods
    /\ IF ~Requested(all.request, sync_methods[all.k])
       THEN /\ all' = [all EXCEPT !.k = @ + 1]
            /\ UNCHANGED <<now, ea, returned, peer, store, db, pc, run,
                           caller, http, runs>>
       ELSE IF sync_methods[all.k] = "easyappointments"
       THEN Start("all", all.request.force_sync)
       ELSE /\ all' = [all EXCEPT
                         !.k = @ + 1,
                         !.results =
                            Append(@, PlaceholderSyncResponse(
                                         sync_methods[all.k]))]
            /\ UNCHANGED <<now, ea, returned, peer, store, db, pc, run,
                           caller, http, runs>>

\* sync_all_sources returns and the endpoint answers
AllReturn ==
    /\ caller = "none"
    /\ all.k = Len(sync_methods) + 1
    /\ all' = NoAll
    /\ http' = [status_code |-> 200,
                body |-> [status |-> "completed",
                          sources_synced |-> Len(all.results),
                          results |-> all.results]]
    /\ UNCHANGED <<now, ea, returned, peer, store, db, pc, run, caller, runs>>

\* -------------------------------------------------- the endpoints' guard
\* SIGNUP_SYNC_SERVICE_TOKEN as configured
SERVICE_TOKEN == <<"s">>

RECURSIVE SplitFrom(_, _, _)
\* str.split(): the words between runs of whitespace
SplitFrom(s, word, parts) ==
    IF s = <<>>
    THEN IF word = <<>> THEN parts ELSE Append(parts, word)
    ELSE IF Head(s) = " "
    THEN SplitFrom(Tail(s), <<>>,
                   IF word = <<>> THEN parts ELSE Append(parts, word))
    ELSE SplitFrom(Tail(s), Append(word, Head(s)), parts)

Split(s) == SplitFrom(s, <<>>, <<>>)

\* any bearer token taken for the service token
VerifyAnyBearer(request) ==
    /\ "authorization" \in DOMAIN request
    /\ request.authorization # <<>>
    /\ Len(Split(request.authorization)) = 2
    /\ Lower(Split(request.authorization)[1]) = <<"b", "e", "a", "r", "e", "r">>

\* verify_service_token(authorization); no header is no field
verify_service_token(request) ==
    /\ "authorization" \in DOMAIN request
    /\ request.authorization # <<>>
    /\ Len(Split(request.authorization)) = 2
    /\ Lower(Split(request.authorization)[1]) = <<"b", "e", "a", "r", "e", "r">>
    /\ Split(request.authorization)[2] = SERVICE_TOKEN

\* the routes that check the token
Paths ==
    {"/sync/easyappointments", "/sync/zoom", "/sync/eventbrite",
     "/sync/poshvip", "/sync/all", "/sync/status", "/funnel/event",
     "/funnel/conversion", "/analytics/funnel-metrics"}

\* values of the Authorization header
Headers ==
    { <<"B", "e", "a", "r", "e", "r", " ", "s">>,
      <<"b", "e", "a", "r", "e", "r", " ", "s">>,
      <<"B", "e", "a", "r", "e", "r", " ", " ", "s">>,
      <<"B", "e", "a", "r", "e", "r", " ", "x">>,
      <<"B", "a", "s", "i", "c", " ", "s">>,
      <<"B", "e", "a", "r", "e", "r", " ", "s", " ", "x">>,
      <<"B", "e", "a", "r", "e", "r">>,
      <<"s">>,
      <<>> }

\* a request reaches one of the routes, with or without the header
Receive ==
    /\ pc = "idle"
    /\ caller = "none"
    /\ all.k = 0
    /\ "path" \notin DOMAIN http
    /\ runs < MaxRuns
    /\ \E path \in Paths :
         \/ http' = [status_code |-> 0, path |-> path]
         \/ \E h \in Headers :
              http' = [status_code |-> 0, path |-> path, authorization |-> h]
    /\ UNCHANGED <<now, ea, returned, peer, store, db, pc, run, caller, all,
                   runs>>

\* what a route answers once the token is verified and its method of
\* FunnelSyncService has returned, for the routes without a store access
Answer(path) ==
    CASE path \in {"/sync/zoom", "/sync/eventbrite", "/sync/poshvip"} ->
           [status_code |-> 200,
            body |-> PlaceholderSyncResponse(
                        CHOOSE t \in Range(sync_methods) :
                           path = "/sync/" \o t)]
      [] path = "/sync/status" ->
           [status_code |-> 404, detail |-> "Funnel source not found"]
      [] path = "/funnel/event" ->
           [status_code |-> 200,
            body |-> [success |-> TRUE, event_id |-> "placeholder"]]
      [] path = "/funnel/conversion" ->
           [status_code |-> 500, detail |-> "Conversion tracking failed"]
      [] path = "/analytics/funnel-metrics" ->
           [status_code |-> 200,
            body |-> [total_leads |-> 0, total_conversions |-> 0,
                      sources |-> <<>>]]

\* the route handler: 401 unless the token verifies, then the method
Handle ==
    /\ "path" \in DOMAIN http
    /\ http.status_code = 0
    /\ IF ~verify_service_token(http)
       THEN /\ http' = [status_code |-> 401,
                        detail |-> "Invalid or missing authorization token"]
            /\ UNCHANGED <<now, ea, returned, peer, store, db, pc, run,
                           caller, all, runs>>
       ELSE IF http.path = "/sync/easyappointments"
       THEN \E force_sync \in BOOLEAN : Start("endpoint", force_sync)
       ELSE IF http.path = "/sync/all"
       THEN AllStart
       ELSE /\ http' = Answer(http.path)
            /\ UNCHANGED <<now, ea, returned, peer, store, db, pc, run,
                           caller, all, runs>>

\* ------------------------------------------------------ a second worker
\* pending_signup_queue.email is unique: an INSERT of an email that another
\* open transaction has inserted waits for that transaction to end
HeldBy(rows, email) == \E n \in DOMAIN rows : rows[n].email = email

\* ... and an INSERT of an email that a committed row carries is rejected
Taken(email) == \E r \in Range(pending_signup_queue) : r.email = email

\* the INSERT of this worker where another worker is running
InsertUnique ==
    /\ pc = "insert"
    /\ \/ MetadataRaises(Appointment)
       \/ /\ ~HeldBy(peer.ins, Lower(Appointment.email))
          /\ ~Taken(Lower(Appointment.email))
    /\ Insert

\* sync_easyappointments is entered in another worker, with a session of its
\* own; of what its adapter returns, one record with an email is followed
PeerStart ==
    /\ peer.pc = "idle"
    /\ \E s \in ActiveSources("easyappointments") :
       \E force_sync \in BOOLEAN :
       \E a \in Range(FetchResult(SyncFrom(now, force_sync,
                                           funnel_sources[s].last_sync_at))) :
         /\ HasEmail(a)
         /\ ~MetadataRaises(a)
         /\ peer' = [NoPeer EXCEPT !.pc = "select", !.began = now,
                                   !.source_id = s] @@ [appointment |-> a]
    /\ UNCHANGED <<now, ea, returned, store, db, pc, run, caller, all, http,
                   runs>>

\* its lookup, which reads committed rows only, finds no signup of the email
PeerSelect ==
    /\ peer.pc = "select"
    /\ ~Taken(Lower(peer.appointment.email))
    /\ peer' = [peer EXCEPT !.pc = "insert"]
    /\ UNCHANGED <<now, ea, returned, store, db, pc, run, caller, all, http,
                   runs>>

\* its INSERT: counted as created, or rejected as a duplicate and caught,
\* which leaves its transaction aborted
PeerInsert ==
    /\ peer.pc = "insert"
    /\ ~HeldBy(db.ins, Lower(peer.appointment.email))
    /\ IF Taken(Lower(peer.appointment.email))
       THEN peer' = [peer EXCEPT !.pc = "ledger", !.failed = TRUE,
                                 !.errors = Append(@, "IntegrityError")]
       ELSE peer' = [peer EXCEPT
                       !.pc = "ledger",
                       !.leads_created = @ + 1,
                       !.ins = <<[NewSignup(41 + Len(pending_signup_queue),
                                             peer.appointment)
                                    EXCEPT !.created_at = peer.began,
                                           !.updated_at = peer.began]>>]
    /\ UNCHANGED <<now, ea, returned, store, db, pc, run, caller, all, http,
                   runs>>

\* its ledger statements and commit; the UPDATE of funnel_sources waits for
\* the row lock of this worker and raises in an aborted transaction
PeerCommit ==
    /\ peer.pc = "ledger"
    /\ IF peer.failed
       THEN /\ peer' = [peer EXCEPT !.pc = "done", !.ins = <<>>]
            /\ UNCHANGED store
       ELSE /\ db.src = {}
            /\ peer' = [peer EXCEPT !.pc = "done", !.ins = <<>>,
                                    !.committed = TRUE]
            /\ pending_signup_queue' = pending_signup_queue \o peer.ins
            /\ funnel_sources' =
                 [funnel_sources EXCEPT
                    ![peer.source_id] =
                       [@ EXCEPT
                          !.last_sync_at = now,
                          !.last_sync_status = Status(peer.errors),
                          !.total_leads_captured = @ + peer.leads_created]]
            /\ funnel_sync_logs' =
                 Append(funnel_sync_logs,
                        [id |-> 31 + Len(funnel_sync_logs),
                         funnel_source_id |-> peer.source_id,
                         sync_type |-> "automatic",
                         sync_status |-> Status(peer.errors),
                         leads_processed |-> 1,
                         leads_created |-> peer.leads_created,
                         leads_updated |-> 0,
                         leads_skipped |-> 0,
                         errors_count |-> Len(peer.errors),
                         error_messages |-> peer.errors,
                         started_at |-> peer.began,
                         completed_at |-> now])
    /\ UNCHANGED <<now, ea, returned, db, pc, run, caller, all, http, runs>>

\* it raises and its session is rolled back
PeerRaises ==
    /\ peer.pc \in {"select", "insert", "ledger"}
    /\ peer' = [peer EXCEPT !.pc = "done", !.ins = <<>>]
    /\ UNCHANGED <<now, ea, returned, store, db, pc, run, caller, all, http,
                   runs>>

\* the service behind POST /sync/easyappointments
Next ==
    \/ Approve
    \/ EndpointSync
    \/ Fetch
    \/ FetchFails
    \/ Select
    \/ Update
    \/ Insert
    \/ WriteFails
    \/ Ledger
    \/ Commit

Spec == Init /\ [][Next]_vars

\* the same service where the external system holds rows without an email
SpecUnidentified == InitUnidentified /\ [][Next]_vars

\* the service behind POST /sync/all
NextAll ==
    \/ AllStart
    \/ AllStep
    \/ AllReturn
    \/ Fetch
    \/ FetchFails
    \/ Select
    \/ Update
    \/ Insert
    \/ WriteFails
    \/ Ledger
    \/ Commit

SpecAll == Init /\ [][NextAll]_vars

\* customers whose emails differ in case only
Racers == {c \in Customers : HasEmail(c) /\ Lower(c.email) = <<"a", "x">>}

\* the service behind its token check
NextGuarded ==
    \/ Receive
    \/ Handle
    \/ AllStep
    \/ AllReturn
    \/ Fetch
    \/ FetchFails
    \/ Select
    \/ Update
    \/ Insert
    \/ WriteFails
    \/ Ledger
    \/ Commit

InitGuarded == InitWith(Racers)

SpecGuarded == InitGuarded /\ [][NextGuarded]_vars

\* two workers serving POST /sync/easyappointments
NextRace ==
    \/ EndpointSync
    \/ Fetch
    \/ FetchFails
    \/ Select
    \/ Update
    \/ InsertUnique
    \/ WriteFails
    \/ Ledger
    \/ Commit
    \/ PeerStart
    \/ PeerSelect
    \/ PeerInsert
    \/ PeerCommit
    \/ PeerRaises

InitRace == InitWith(Racers)

SpecRace == InitRace /\ [][NextRace]_vars

\* incremental syncs of a source whose customers keep booking
NextBooking ==
    \/ Book
    \/ ScheduledSync
    \/ Fetch
    \/ FetchFails
    \/ Select
    \/ Update
    \/ Insert
    \/ WriteFails
    \/ Ledger
    \/ Commit

InitBooking == InitWith(Bookers)

SpecBooking == InitBooking /\ [][NextBooking]_vars

\* the approver deciding while no run is active
ApproveBetweenRuns == pc = "idle" /\ Approve

\* runs replayed over the same bookings, the approver acting between them
NextReplay ==
    \/ ApproveBetweenRuns
    \/ EndpointSync
    \/ Fetch
    \/ FetchFails
    \/ Select
    \/ Update
    \/ Insert
    \/ WriteFails
    \/ Ledger
    \/ Commit

SpecReplay == Init /\ [][NextReplay]_vars

\* customers of whom the external system holds an empty first or last name
Blanks ==
    {[email |-> <<"A", "x">>, first_name |-> "Jane", last_name |-> "Roe"],
     [email |-> <<"a", "x">>, first_name |-> "", last_name |-> "Doe"],
     [email |-> <<"a", "x">>, first_name |-> "Ann", last_name |-> ""]}

InitBlanks == InitWith(Blanks)

\* the same service where the external system holds empty names
SpecBlanks == InitBlanks /\ [][Next]_vars


\* ================================================================= claims
\* the rows a statement of the session sees, and the committed rows
Visible == Range(View) \cup Range(pending_signup_queue)

\* the case-folded email, computed character by character
Folded(email) ==
    [n \in DOMAIN email |->
       IF email[n] \in {"A", "B", "X"}
       THEN CHOOSE c \in {"a", "b", "x"} : <<email[n], c>> \in
               {<<"A", "a">>, <<"B", "b">>, <<"X", "x">>}
       ELSE email[n]]

OnePerEmail(rows) ==
    \A n, m \in DOMAIN rows :
       Folded(rows[n].email) = Folded(rows[m].email) => n = m

\* C1: whatever records have been reconciled, the committed store and the
\* rows the session sees hold at most one PendingRecord per case-folded email.
C1_OnePerNormalizedEmail ==
    OnePerEmail(pending_signup_queue) /\ OnePerEmail(View)

\* C1 witness: both case variants of one email were reconciled by a committed
\* run and the store holds a single row for them.
C1_Witness ==
    /\ pc = "idle"
    /\ "body" \in DOMAIN http
    /\ http.body.leads_created = 1
    /\ http.body.leads_updated >= 1
    /\ \E n, m \in DOMAIN ea :
         /\ HasEmail(ea[n]) /\ HasEmail(ea[m])
         /\ ea[n].email # ea[m].email
         /\ Folded(ea[n].email) = Folded(ea[m].email)
    /\ Len(pending_signup_queue) = 1


\* the lookup of the current appointment finds a decided signup
Decided(email) ==
    \E r \in Range(View) :
       r.email = Folded(email) /\ r.status \in {"approved", "rejected"}

\* C2: once a PendingRecord is approved or rejected, every reconcile for its
\* email, in any case variant and with any field values, returns skipped and
\* changes no field of any row.
C2_FrozenAfterDecision ==
    [][ ( /\ pc = "loop"
          /\ run.idx <= Len(run.appointments)
          /\ HasEmail(Appointment)
          /\ Decided(Appointment.email)
          /\ run'.idx = run.idx + 1 )
        => ( /\ run'.leads_skipped = run.leads_skipped + 1
             /\ run'.errors = run.errors
             /\ View' = View
             /\ pending_signup_queue' = pending_signup_queue ) ]_vars

\* C3: an update sets first_name and last_name to the incoming value when
\* that is non-null and keeps the stored value otherwise.
C3_MergeKeepsNonNull ==
    [][ ( /\ pc = "update"
          /\ run'.leads_updated = run.leads_updated + 1 )
        => ( /\ \E n \in DOMAIN View :
                  View[n].email = Folded(Appointment.email)
             /\ Len(View') = Len(View)
             /\ \A n \in DOMAIN View :
                  View[n].email = Folded(Appointment.email) =>
                    /\ View'[n].first_name =
                         IF "first_name" \in DOMAIN Appointment
                         THEN Appointment.first_name
                         ELSE View[n].first_name
                    /\ View'[n].last_name =
                         IF "last_name" \in DOMAIN Appointment
                         THEN Appointment.last_name
                         ELSE View[n].last_name ) ]_vars

\* C3 witness: {first_name: Jane} and then {first_name: null, last_name: Doe}
\* were reconciled for one pending email, and the row reads Jane Doe.
C3_Witness ==
    \E r \in Range(pending_signup_queue) :
       /\ r.first_name = "Jane"
       /\ r.last_name = "Doe"
       /\ r.signup_metadata.phone = "p2"
       /\ r.status = "pending"

\* a step of the approver: nothing but the status of signups changes
DecisionOnly ==
    /\ funnel_sources' = funnel_sources
    /\ funnel_sync_logs' = funnel_sync_logs
    /\ Len(pending_signup_queue') = Len(pending_signup_queue)
    /\ \A n \in DOMAIN pending_signup_queue :
         pending_signup_queue'[n] =
            [pending_signup_queue[n] EXCEPT
               !.status = pending_signup_queue'[n].status]

\* every write of the run becomes visible in one step
WholeRunVisible ==
    /\ pc = "commit"
    /\ Len(db.logs) = 1
    /\ Cardinality(db.src) = 1
    /\ pending_signup_queue' = View
    /\ funnel_sync_logs' = funnel_sync_logs \o db.logs
    /\ \A r \in db.src : funnel_sources'[r.id] = r
    /\ ~db'.open

\* C4: the committed store changes through a run only by one step that makes
\* all record writes, the watermark advance and the audit row of the run
\* visible together; a run that ends otherwise leaves none of them.
C4_AllOrNothing ==
    [][ /\ (store' # store /\ ~DecisionOnly) => WholeRunVisible
        /\ (db.open /\ ~db'.open /\ pc # "commit") => store' = store ]_vars

\* C4 witness: a run committed inserts, the watermark and its audit row.
C4_Witness ==
    /\ pc = "idle"
    /\ Len(funnel_sync_logs) = 1
    /\ Len(pending_signup_queue) >= 2
    /\ \E id \in SourceIds : funnel_sources[id].last_sync_at # NullTime

\* C5: when the adapter raises, the run ends with nothing written in the
\* session and nothing changed in the store: watermark, status and total of
\* the source as before, no SyncRun row, no PendingRecord.
C5_FetchFailureLeavesLedger ==
    [][ (pc = "fetch" /\ pc' = "idle")
        => ( /\ store' = store
             /\ db.ins = <<>> /\ db.upd = {} /\ db.src = {} /\ db.logs = <<>>
             /\ ~db'.open
             /\ caller = "endpoint" =>
                  http' = [status_code |-> 500, detail |-> "AdapterError"] )
      ]_vars

\* C5 witness: the adapter raised in the first run of a source.
C5_Witness ==
    /\ http = [status_code |-> 500, detail |-> "AdapterError"]
    /\ funnel_sync_logs = <<>>
    /\ pending_signup_queue = <<>>
    /\ \A id \in SourceIds : funnel_sources[id].last_sync_at = NullTime
    /\ Len(ea) > 0


\* the step that leaves the reconcile loop after the last appointment
LoopDone == pc = "loop" /\ run.idx > Len(run.appointments) /\ pc' # "loop"

\* C6: a batch of n records of which k raised still completes: the ledger is
\* written with processed = n, errors_count = k and status partial when
\* k >= 1, and the writes of the other records are committed with it.
C6_PartialFailureIsolation ==
    [][ /\ LoopDone =>
           /\ pc' = "commit"
           /\ run.leads_created + run.leads_updated + run.leads_skipped
                 + Len(run.errors) = Len(run.appointments)
           /\ Len(db'.logs) = 1
           /\ db'.logs[1].leads_processed = Len(run.appointments)
           /\ db'.logs[1].errors_count = Len(run.errors)
           /\ Len(run.errors) >= 1 => db'.logs[1].sync_status = "partial"
        /\ pc = "commit" /\ pc' # "commit" =>
           /\ pending_signup_queue' = View
           /\ funnel_sync_logs' = funnel_sync_logs \o db.logs ]_vars

\* a run of sync_easyappointments ends by raising
RunRaises ==
    \/ pc = "idle" /\ runs' = runs + 1 /\ pc' = "idle"
    \/ pc = "fetch" /\ pc' = "idle"
    \/ LoopDone /\ pc' = "idle"

RequestedTypes ==
    {t \in Range(sync_methods) :
       \/ "source_types" \notin DOMAIN all.request
       \/ \E n \in DOMAIN all.request.source_types :
             all.request.source_types[n] = t}

EntriesOf(t) == {n \in DOMAIN all.results : all.results[n].source_type = t}

\* C7: in sync_all_sources an exception of one source's run becomes an entry
\* {status: failed, source_type, error} and leaves the store, hence the
\* watermark of that source, as it was; the loop goes on, and on return the
\* result holds exactly one entry per requested source type of the table.
C7_SourceFailureIsolated ==
    /\ [][ (RunRaises /\ caller' = "none" /\ all.k # 0) =>
             /\ store' = store
             /\ all'.k = all.k + 1
             /\ Len(all'.results) = Len(all.results) + 1
             /\ SubSeq(all'.results, 1, Len(all.results)) = all.results
             /\ DOMAIN all'.results[Len(all'.results)] =
                   {"status", "source_type", "error"}
             /\ all'.results[Len(all'.results)].status = "failed"
             /\ all'.results[Len(all'.results)].source_type
                   = sync_methods[all.k] ]_vars
    /\ [](all.k = Len(sync_methods) + 1 =>
             /\ \A t \in RequestedTypes : Cardinality(EntriesOf(t)) = 1
             /\ Len(all.results) = Cardinality(RequestedTypes))

\* C7 witness: sync_all_sources(["easyappointments", "zoom"]) where the
\* adapter raised: a failed entry, then the entry of zoom, watermark unset.
C7_Witness ==
    /\ all.k = Len(sync_methods) + 1
    /\ "source_types" \in DOMAIN all.request
    /\ all.request.source_types = <<"easyappointments", "zoom">>
    /\ Len(all.results) = 2
    /\ all.results[1] = [status |-> "failed",
                         source_type |-> "easyappointments",
                         error |-> "AdapterError"]
    /\ all.results[2].status = "success"
    /\ all.results[2].source_type = "zoom"
    /\ \A id \in SourceIds : funnel_sources[id].last_sync_at = NullTime
    /\ Len(ea) > 0

\* a batch [A, B, A']: three records with emails, the first and the third for
\* one case-folded email, the second for another
BatchABA(batch) ==
    /\ Len(batch) = 3
    /\ \A n \in 1..3 : HasEmail(batch[n])
    /\ Folded(batch[1].email) = Folded(batch[3].email)
    /\ Folded(batch[1].email) # Folded(batch[2].email)

\* the snapshot of a record, written out field by field
Snapshot(a) ==
    [source |-> "easyappointments",
     appointment_id |-> a.appointment_id,
     service_price |->
        IF "price" \in DOMAIN a /\ a.price = "10" THEN "10.0"
        ELSE IF "price" \in DOMAIN a /\ a.price = "20" THEN "20.0"
        ELSE None,
     phone |-> IF "mobile_number" \in DOMAIN a /\ a.mobile_number # ""
               THEN a.mobile_number
               ELSE IF "phone_number" \in DOMAIN a THEN a.phone_number
               ELSE None]

\* C8: the records of a batch are reconciled one by one in fetch order, so a
\* batch [A, B, A'] against a store with neither email, no record raising,
\* commits with processed 3, created 2, updated 1, skipped 0, and the row of
\* A's email carries the snapshot of A', the last occurrence.
C8_LastWriteWinsInFetchOrder ==
    [][ ( /\ pc = "commit" /\ pc' = "idle"
          /\ pending_signup_queue = <<>>
          /\ BatchABA(ea)
          /\ run.appointments = ea
          /\ run.errors = <<>> )
        => ( /\ db.logs[1].leads_processed = 3
             /\ run.leads_created = 2
             /\ run.leads_updated = 1
             /\ run.leads_skipped = 0
             /\ Len(pending_signup_queue') = 2
             /\ \E r \in Range(pending_signup_queue') :
                  /\ r.email = Folded(ea[1].email)
                  /\ r.signup_metadata = Snapshot(ea[3])
             /\ caller = "endpoint" =>
                  /\ http'.body.leads_processed = 3
                  /\ http'.body.leads_created = 2
                  /\ http'.body.leads_updated = 1
                  /\ http'.body.leads_skipped = 0 ) ]_vars

\* C8 witness: the batch [A, B, A'] committed, A' with another phone than A.
C8_Witness ==
    /\ pc = "idle"
    /\ BatchABA(ea)
    /\ Snapshot(ea[1]).phone # Snapshot(ea[3]).phone
    /\ "body" \in DOMAIN http
    /\ http.body.leads_processed = 3
    /\ http.body.leads_created = 2
    /\ http.body.leads_updated = 1
    /\ http.body.errors_count = 0
    /\ Len(funnel_sync_logs) = 1

\* the aggregate status of a run with the given number of errors
Aggregate(errors_count) == IF errors_count = 0 THEN "success" ELSE "partial"

\* C9: a run that commits sets last_sync_at of its source to the current
\* time, not to the window start, last_sync_status to the aggregate
\* status, adds its created count to total_leads_captured and inserts exactly
\* one SyncRun row with its counts, for partial runs as for successful ones.
C9_LedgerOnCommit ==
    [][ (pc = "commit" /\ pc' = "idle") =>
          LET before == funnel_sources[run.source_id]
              after == funnel_sources'[run.source_id]
              row == funnel_sync_logs'[Len(funnel_sync_logs')]
          IN /\ after.last_sync_at = now
             /\ after.last_sync_at # run.sync_from
             /\ after.last_sync_status = Aggregate(Len(run.errors))
             /\ after.total_leads_captured
                   = before.total_leads_captured + run.leads_created
             /\ Len(funnel_sync_logs') = Len(funnel_sync_logs) + 1
             /\ SubSeq(funnel_sync_logs', 1, Len(funnel_sync_logs))
                   = funnel_sync_logs
             /\ row.funnel_source_id = run.source_id
             /\ row.leads_processed = Len(run.appointments)
             /\ row.leads_created = run.leads_created
             /\ row.leads_updated = run.leads_updated
             /\ row.leads_skipped = run.leads_skipped
             /\ row.errors_count = Len(run.errors) ]_vars

\* C9 witness: a partial run committed after an earlier run had created
\* leads.
C9_Witness ==
    /\ pc = "idle"
    /\ Len(funnel_sync_logs) = 2
    /\ funnel_sync_logs[1].leads_created >= 1
    /\ funnel_sync_logs[2].sync_status = "partial"
    /\ funnel_sync_logs[2].leads_updated >= 1
    /\ \E id \in SourceIds :
         /\ funnel_sources[id].last_sync_status = "partial"
         /\ funnel_sources[id].last_sync_at = now
         /\ funnel_sources[id].total_leads_captured
               = funnel_sync_logs[1].leads_created

\* C10: the aggregate status of a committed run is success exactly when it
\* counted no error and partial otherwise, never failed, and the one value
\* is on the source, on the SyncRun row and in the response.
C10_AggregateStatus ==
    /\ \A n \in DOMAIN funnel_sync_logs :
         /\ funnel_sync_logs[n].sync_status \in {"success", "partial"}
         /\ funnel_sync_logs[n].sync_status = "success"
               <=> funnel_sync_logs[n].errors_count = 0
    /\ Len(funnel_sync_logs) > 0 =>
         funnel_sources[funnel_sync_logs[Len(funnel_sync_logs)]
                           .funnel_source_id].last_sync_status
            = funnel_sync_logs[Len(funnel_sync_logs)].sync_status
    /\ "body" \in DOMAIN http /\ "errors_count" \in DOMAIN http.body =>
         /\ http.body.status
               = funnel_sync_logs[Len(funnel_sync_logs)].sync_status
         /\ http.body.errors_count
               = funnel_sync_logs[Len(funnel_sync_logs)].errors_count
         /\ http.body.status = "success" <=> http.body.errors_count = 0

\* C10 witness: a committed run reported partial in its response.
C10_Witness ==
    /\ "body" \in DOMAIN http
    /\ "errors_count" \in DOMAIN http.body
    /\ http.body.status = "partial"
    /\ http.body.errors_count >= 1
    /\ http.body.leads_created >= 1

\* the configured rows of the requested source type, active or not
RowsOfType(source_type) ==
    {id \in SourceIds : funnel_sources[id].source_type = source_type}

\* C11: the lower bound of the fetch window handed to the adapter is the
\* current time minus sync_window_days when force_sync is set or the source
\* has no last_sync_at, and the stored last_sync_at otherwise; the adapter
\* returns the appointments booked at or after it.
C11_FetchWindowLowerBound ==
    [][ /\ (pc = "idle" /\ pc' = "fetch") =>
             LET stored == funnel_sources[run'.source_id].last_sync_at
             IN /\ (run'.force_sync \/ stored = NullTime)
                      => run'.sync_from = now - 7
                /\ (~run'.force_sync /\ stored # NullTime)
                      => run'.sync_from = stored
        /\ (pc = "fetch" /\ pc' = "loop") =>
             /\ \A n \in DOMAIN ea :
                   (ea[n].book_datetime >= run.sync_from)
                      <=> (\E m \in DOMAIN run'.appointments :
                              run'.appointments[m] = ea[n])
             /\ \A m \in DOMAIN run'.appointments :
                   run'.appointments[m].book_datetime >= run.sync_from
      ]_vars

\* C11 witness: a run that is not forced fetches from the watermark an
\* earlier run committed, which is later than seven days back.
C11_Witness ==
    /\ pc = "loop"
    /\ ~run.force_sync
    /\ Len(funnel_sync_logs) = 1
    /\ run.sync_from = funnel_sources[run.source_id].last_sync_at
    /\ run.sync_from > run.started_at - 7
    /\ Len(ea) > 0
    /\ run.appointments = <<>>

\* C12: when no row of the requested source type is active, none configured
\* or only inactive ones, the run raises the source-not-found error before
\* the adapter is called and leaves the store as it was: no SyncRun row, no
\* change of a FunnelSource, no PendingRecord.
C12_SourceNotFoundBeforeFetch ==
    /\ [][ ( /\ pc = "idle" /\ runs' = runs + 1
              /\ \A id \in RowsOfType("easyappointments") :
                    ~funnel_sources[id].is_active )
            => ( /\ pc' = "idle"
                 /\ ~db'.open
                 /\ store' = store
                 /\ caller = "none" /\ all.k = 0 =>
                      http' = [status_code |-> 500,
                               detail |-> "No active funnel source found"] )
          ]_vars
    /\ []( pc # "idle" =>
             \E id \in RowsOfType("easyappointments") :
                funnel_sources[id].is_active )

\* C12 witness: the only easyappointments row is inactive, the request was
\* answered with the error, and the store is empty though there are bookings.
C12_Witness ==
    /\ RowsOfType("easyappointments") # {}
    /\ \A id \in RowsOfType("easyappointments") :
          ~funnel_sources[id].is_active
    /\ http = [status_code |-> 500, detail |-> "No active funnel source found"]
    /\ runs = 2
    /\ funnel_sync_logs = <<>>
    /\ pending_signup_queue = <<>>
    /\ \A id \in SourceIds : funnel_sources[id].last_sync_at = NullTime
    /\ Len(ea) > 0

\* a record that carries no email: the field missing or null, or empty
NoIdentity(a) == "email" \notin DOMAIN a \/ Len(a.email) = 0

\* C13: a record without an email, missing, null or empty, is reconciled to
\* skipped with no write in the session or the store and is counted under
\* leads_skipped, not as an error; a run of such records commits as success.
C13_NoEmailSkipped ==
    [][ /\ ( /\ pc = "loop"
              /\ run.idx <= Len(run.appointments)
              /\ NoIdentity(run.appointments[run.idx])
              /\ run' # run )
            => ( /\ pc' = "loop"
                 /\ run'.idx = run.idx + 1
                 /\ run'.leads_skipped = run.leads_skipped + 1
                 /\ run'.leads_created = run.leads_created
                 /\ run'.leads_updated = run.leads_updated
                 /\ run'.errors = run.errors
                 /\ db' = db
                 /\ store' = store )
        /\ ( /\ pc = "commit" /\ pc' = "idle"
              /\ \A n \in DOMAIN run.appointments :
                    NoIdentity(run.appointments[n]) )
            => ( /\ pending_signup_queue' = pending_signup_queue
                 /\ http'.body.status = "success"
                 /\ http'.body.errors_count = 0
                 /\ http'.body.leads_skipped = Len(run.appointments) )
      ]_vars

\* C13 witness: a run over one record with no email field and one with an
\* empty email committed as success with both skipped and nothing stored.
C13_Witness ==
    /\ pc = "idle"
    /\ Len(ea) = 2
    /\ "email" \notin DOMAIN ea[1]
    /\ "email" \in DOMAIN ea[2] /\ ea[2].email = <<>>
    /\ "body" \in DOMAIN http
    /\ http.body.status = "success"
    /\ http.body.leads_processed = 2
    /\ http.body.leads_skipped = 2
    /\ http.body.errors_count = 0
    /\ pending_signup_queue = <<>>
    /\ Len(funnel_sync_logs) = 1

\* a step of the run, as opposed to a step of the approver
RunSteps == <<db, pc, run>>' # <<db, pc, run>>

\* C14: the reconciler inserts a PendingRecord only when neither the store
\* nor the session holds one for the case-folded email, every record it
\* inserts has status pending, and no step of a run, its commit included,
\* changes the status of an existing PendingRecord: only the approver does.
C14_InsertPendingStatusKept ==
    /\ [][ /\ (Len(db'.ins) > Len(db.ins)) =>
                 /\ pc = "insert"
                 /\ Len(db'.ins) = Len(db.ins) + 1
                 /\ SubSeq(db'.ins, 1, Len(db.ins)) = db.ins
                 /\ \A r \in Visible :
                       Folded(r.email) # Folded(Appointment.email)
                 /\ db'.ins[Len(db'.ins)].email = Folded(Appointment.email)
                 /\ db'.ins[Len(db'.ins)].status = "pending"
           /\ RunSteps =>
                 /\ Len(pending_signup_queue') >= Len(pending_signup_queue)
                 /\ \A n \in DOMAIN pending_signup_queue :
                       /\ pending_signup_queue'[n].id
                             = pending_signup_queue[n].id
                       /\ pending_signup_queue'[n].status
                             = pending_signup_queue[n].status
                 /\ \A n \in DOMAIN pending_signup_queue' :
                       (n > Len(pending_signup_queue))
                          => (pending_signup_queue'[n].status = "pending")
          ]_vars
    /\ [](\A n \in DOMAIN pending_signup_queue :
             View[n].status = pending_signup_queue[n].status)

\* C14 witness: a run inserted two signups, the approver decided one, and a
\* second run updated the other and skipped the decided one.
C14_Witness ==
    /\ pc = "idle"
    /\ Len(funnel_sync_logs) = 2
    /\ funnel_sync_logs[1].leads_created = 2
    /\ funnel_sync_logs[2].leads_updated >= 1
    /\ funnel_sync_logs[2].leads_skipped >= 1
    /\ Len(pending_signup_queue) = 2
    /\ \E n, m \in DOMAIN pending_signup_queue :
          /\ pending_signup_queue[n].status = "approved"
          /\ pending_signup_queue[m].status = "pending"
          /\ pending_signup_queue[m].updated_at
                > pending_signup_queue[m].created_at

\* one invocation of the reconciler returns: the loop moves to the next record
Returns(counter) ==
    /\ pc \in {"loop", "insert", "update"}
    /\ run'.idx = run.idx + 1
    /\ run'[counter] = run[counter] + 1

\* the rows of the session's view that a step changed
Rewritten == {n \in DOMAIN View : View'[n] # View[n]}

\* C15: an invocation of the reconciler that returns created has made one
\* insert and nothing else, one that returns updated one update of the one
\* row of the email, one that returns skipped no write; none commits or
\* rolls back: the session stays open, the store is untouched, and signups
\* reach the store only by the commit of the enclosing run.
C15_OneWriteNoCommit ==
    [][ /\ Returns("leads_created") =>
             /\ Len(db'.ins) = Len(db.ins) + 1
             /\ SubSeq(db'.ins, 1, Len(db.ins)) = db.ins
             /\ db'.upd = db.upd
             /\ Rewritten = {}
        /\ Returns("leads_updated") =>
             /\ Len(View') = Len(View)
             /\ Cardinality(Rewritten) = 1
             /\ \A n \in Rewritten :
                   View[n].email = Folded(Appointment.email)
        /\ Returns("leads_skipped") => db' = db
        /\ (pc \in {"loop", "insert", "update"} /\ run'.idx = run.idx + 1) =>
             /\ store' = store
             /\ db'.open
             /\ db'.began = db.began
             /\ db'.src = db.src /\ db'.logs = db.logs
        /\ (RunSteps /\ pending_signup_queue' # pending_signup_queue) =>
             /\ pc = "commit"
             /\ pending_signup_queue' = View
      ]_vars

\* C15 witness: in one run a record was inserted, the next one updated the
\* uncommitted row, a third was skipped, and the store is still empty.
C15_Witness ==
    /\ pc = "loop"
    /\ run.idx = 4
    /\ run.leads_created = 1
    /\ run.leads_updated = 1
    /\ run.leads_skipped = 1
    /\ Len(db.ins) = 1
    /\ db.ins[1].signup_metadata.appointment_id = 2
    /\ pending_signup_queue = <<>>
    /\ funnel_sync_logs = <<>>

\* the window start of the first committed run: the source had no watermark
FirstSyncFrom == funnel_sync_logs[1].started_at - 7

\* C16: with every run incremental and the source gaining records at any
\* moment, each stamped with the clock at booking, a run that commits leaves
\* no gap: every record that existed when it fetched and was booked at or
\* after the window start of the first committed run has been returned by
\* the adapter to a committed run, this one included.
C16_NoGapBetweenWindows ==
    [][ (pc = "commit" /\ pc' = "idle" /\ funnel_sync_logs # <<>>) =>
          \A n \in 1..run.existing :
             (ea[n].book_datetime >= FirstSyncFrom)
                => (ea[n].appointment_id \in returned') ]_vars

RECURSIVE Created(_)
\* the created counts of the committed runs, added up
Created(logs) ==
    IF logs = <<>> THEN 0
    ELSE logs[1].leads_created + Created(Tail(logs))

\* the rows of one case-folded email among the given rows
RowsOf(rows, email) ==
    {n \in DOMAIN rows : Folded(rows[n].email) = Folded(email)}

Presented ==
    { <<"B", "e", "a", "r", "e", "r", " ", "s">>,
      <<"b", "e", "a", "r", "e", "r", " ", "s">>,
      <<"B", "e", "a", "r", "e", "r", " ", " ", "s">> }

\* a request waits for its route handler without such a header
Unauthorized ==
    /\ "path" \in DOMAIN http
    /\ http.status_code = 0
    /\ \/ "authorization" \notin DOMAIN http
       \/ http.authorization \notin Presented

\* C18: on every route that syncs, reports status, tracks an event or a
\* conversion, or serves metrics, a request without Authorization header,
\* with one that is not Bearer <token>, or with another token than the
\* configured one is answered 401 and nothing else happens: no method of the
\* orchestrator is entered and the store is as it was.
C18_BadTokenRejected ==
    [][ Unauthorized =>
          /\ http' = [status_code |-> 401,
                      detail |-> "Invalid or missing authorization token"]
          /\ store' = store
          /\ <<db, pc, run, caller, all, runs>>'
                = <<db, pc, run, caller, all, runs>> ]_vars

\* C18 witness: after a run had stored signups, a request with a wrong
\* token was answered 401.
C18_Witness ==
    /\ http.status_code = 401
    /\ pc = "idle"
    /\ runs = 1
    /\ Len(pending_signup_queue) >= 1
    /\ Len(funnel_sync_logs) = 1

\* the place of a source type in the declared order
Declared(t) ==
    CASE t = "easyappointments" -> 1
      [] t = "zoom" -> 2
      [] t = "eventbrite" -> 3
      [] t = "poshvip" -> 4

\* the source types of the result entries, in the order of the entries
Entries == [n \in DOMAIN all.results |-> all.results[n].source_type]

\* the names the caller listed, all declared sources when it listed none
Listed ==
    IF "source_types" \in DOMAIN all.request
    THEN {all.request.source_types[n] : n \in DOMAIN all.request.source_types}
    ELSE {"easyappointments", "zoom", "eventbrite", "poshvip"}

\* C19: sync_all_sources runs the sources one after the other in the
\* declared order easyappointments, zoom, eventbrite, poshvip, only those the
\* caller listed: the result entries are in declared order whatever the
\* order, repetitions or unknown names of the list, no source has two
\* entries, and while one source runs no later source has an entry.
C19_DeclaredOrderOnce ==
    /\ \A n \in DOMAIN Entries :
          Entries[n] \in Listed \cap
                         {"easyappointments", "zoom", "eventbrite", "poshvip"}
    /\ \A n, m \in DOMAIN Entries :
          n < m => Declared(Entries[n]) < Declared(Entries[m])
    /\ caller = "all" =>
          \A n \in DOMAIN Entries :
             Declared(Entries[n]) < Declared("easyappointments")
    /\ all.k = 5 =>
          \A t \in Listed \cap
                    {"easyappointments", "zoom", "eventbrite", "poshvip"} :
             \E n \in DOMAIN Entries : Entries[n] = t

\* C19 witness: the caller listed poshvip, an unknown name, zoom and poshvip
\* again; the result is the entry of zoom and then the one of poshvip.
C19_Witness ==
    /\ all.k = 5
    /\ "source_types" \in DOMAIN all.request
    /\ all.request.source_types = <<"poshvip", "bogus", "zoom", "poshvip">>
    /\ Entries = <<"zoom", "poshvip">>

\* who awaits the run that is starting or running
Via == IF all.k = 0 THEN "endpoint" ELSE "all"

\* C20: a run of one source that ends before its commit, because no active
\* source was found, the adapter raised or a ledger statement raised, reports
\* the failure to its caller, as the error answer of the endpoint or as the
\* entry with status failed of sync_all_sources, and leaves the store as it
\* was: no SyncRun row, the watermark of every source unmodified.
C20_AbortReportsFailed ==
    [][ RunRaises =>
          /\ funnel_sync_logs' = funnel_sync_logs
          /\ \A id \in SourceIds :
                funnel_sources'[id].last_sync_at
                   = funnel_sources[id].last_sync_at
          /\ pending_signup_queue' = pending_signup_queue
          /\ ~db'.open
          /\ Via = "endpoint" =>
                /\ http'.status_code = 500
                /\ DOMAIN http' = {"status_code", "detail"}
                /\ http'.detail \in {"No active funnel source found",
                                     "AdapterError", "InFailedSqlTransaction"}
          /\ Via = "all" =>
                /\ Len(all'.results) = Len(all.results) + 1
                /\ all'.results[Len(all'.results)].status = "failed"
                /\ all'.results[Len(all'.results)].source_type
                      = "easyappointments"
                /\ all'.results[Len(all'.results)].error
                      \in {"No active funnel source found", "AdapterError",
                           "InFailedSqlTransaction"} ]_vars

\* C20 witness: the ledger statement of a second run raised; the endpoint
\* answered with the error, and the store holds the audit row and the
\* watermark of the first run only.
C20_Witness ==
    /\ pc = "idle"
    /\ runs = 2
    /\ http = [status_code |-> 500, detail |-> "InFailedSqlTransaction"]
    /\ Len(funnel_sync_logs) = 1
    /\ \E id \in SourceIds :
          /\ funnel_sources[id].last_sync_at
                = funnel_sync_logs[1].completed_at
          /\ funnel_sources[id].last_sync_status
                = funnel_sync_logs[1].sync_status
    /\ now > funnel_sync_logs[1].completed_at

\* ------------------------------------------------------------------- C21
\* the run is about to commit a batch that an earlier committed run has
\* already processed, appointment for appointment
Replayed ==
    /\ pc = "commit"
    /\ run.appointments # <<>>
    /\ {run.appointments[n].appointment_id : n \in DOMAIN run.appointments}
         = returned

\* the fields of a signup that a replay must leave as they were
Content(row) ==
    <<row.id, row.email, row.first_name, row.last_name, row.company,
      row.status, row.signup_metadata>>

\* C21: the commit of a run that replays the batch of an earlier committed
\* run creates no signup (leads_created = 0, total_leads_captured as it was,
\* no row more) and leaves the names, company, status and metadata of every
\* signup as they were after the earlier run.
C21_ReplayIdempotent ==
    [][(Replayed /\ pc' = "idle") =>
         (/\ run.leads_created = 0
          /\ http'.body.leads_created = 0
          /\ funnel_sources'[run.source_id].total_leads_captured
               = funnel_sources[run.source_id].total_leads_captured
          /\ Len(pending_signup_queue') = Len(pending_signup_queue)
          /\ \A n \in DOMAIN pending_signup_queue :
               Content(pending_signup_queue'[n])
                 = Content(pending_signup_queue[n]))]_vars

\* a replay that updated one signup and skipped a decided one
C21_Witness ==
    /\ Replayed
    /\ run.force_sync
    /\ run.leads_updated >= 1
    /\ run.leads_skipped >= 1
    /\ \E r \in db.upd : r.updated_at > StartClock

\* ------------------------------------------------------------------- C22
\* the latest version of the signups of an email, as the session sees them
Stored(session, email) ==
    {r \in Range(ViewOf(pending_signup_queue, session)) : r.email = email}

\* the name is present in the incoming record and is the empty string
Empty(appointment, name) ==
    name \in DOMAIN appointment /\ appointment[name] = ""

\* C22: an UPDATE whose incoming record carries an empty first or last name
\* leaves the stored non-empty name as it was.
C22_EmptyNameKept ==
    [][(pc = "update" /\ pc' = "loop") =>
         (\A r \in Stored(db, Lower(Appointment.email)) :
          \A name \in {"first_name", "last_name"} :
            (Empty(Appointment, name) /\ r[name] \notin {None, ""}) =>
               (\A q \in Stored(db', r.email) : q[name] = r[name]))]_vars

\* ------------------------------------------------------------------- C23
\* C23: a committed signup that is approved or rejected is changed by no
\* step, also when the decision landed between the lookup that saw it
\* pending and the UPDATE for its email.
C23_DecidedNeverMutated ==
    [][\A n \in DOMAIN pending_signup_queue :
         (pending_signup_queue[n].status \in {"approved", "rejected"}) =>
            (pending_signup_queue'[n] = pending_signup_queue[n])]_vars

\* ------------------------------------------------------------------- C24
\* C24: the SyncRun log is append-only: every step keeps the existing rows
\* as they are and in place; the commit of a run adds exactly one row, of the
\* run's source and with an id no other row has; every other step, the end
\* of an aborted run included, adds none.
C24_LogAppendOnly ==
    /\ [][/\ Len(funnel_sync_logs') >= Len(funnel_sync_logs)
          /\ SubSeq(funnel_sync_logs', 1, Len(funnel_sync_logs))
               = funnel_sync_logs
          /\ IF pc = "commit" /\ pc' = "idle"
             THEN /\ Len(funnel_sync_logs') = Len(funnel_sync_logs) + 1
                  /\ funnel_sync_logs'[Len(funnel_sync_logs')].funnel_source_id
                       = run.source_id
             ELSE funnel_sync_logs' = funnel_sync_logs]_vars
    /\ [](\A m, n \in DOMAIN funnel_sync_logs :
            (funnel_sync_logs[m].id = funnel_sync_logs[n].id) => (m = n))

\* two committed runs of one source have left two rows
C24_Witness ==
    /\ pc = "idle"
    /\ runs = 2
    /\ Len(funnel_sync_logs) = 2
    /\ funnel_sync_logs[1].funnel_source_id
         = funnel_sync_logs[2].funnel_source_id
    /\ funnel_sync_logs[1].completed_at < funnel_sync_logs[2].completed_at

\* ------------------------------------------------------------------- C25
\* the four tallies of a run
Tallies(r) ==
    r.leads_created + r.leads_updated + r.leads_skipped + Len(r.errors)

InLoop(p) == p \in {"loop", "insert", "update"}

\* C25: while the loop runs, going on to the next record raises exactly one
\* of the four tallies by one and nothing else changes a tally; the run that
\* is about to commit has walked the whole batch the adapter returned, and
\* its audit row, like every committed audit row and the returned dict, has
\* leads_processed = the number of fetched records
\* = leads_created + leads_updated + leads_skipped + errors_count.
C25_TalliesPartitionBatch ==
    /\ [][(InLoop(pc) /\ InLoop(pc')) =>
            (/\ run'.idx - run.idx \in {0, 1}
             /\ Tallies(run') - Tallies(run) = run'.idx - run.idx
             /\ run'.leads_created >= run.leads_created
             /\ run'.leads_updated >= run.leads_updated
             /\ run'.leads_skipped >= run.leads_skipped
             /\ Len(run'.errors) >= Len(run.errors))]_vars
    /\ [](pc = "commit" =>
            (/\ run.appointments = FetchResult(run.sync_from)
             /\ Tallies(run) = Len(run.appointments)
             /\ db.logs[Len(db.logs)].leads_processed
                  = Len(run.appointments)
             /\ db.logs[Len(db.logs)].errors_count = Len(run.errors)))
    /\ [](\A n \in DOMAIN funnel_sync_logs :
            LET row == funnel_sync_logs[n]
            IN  row.leads_processed
                  = row.leads_created + row.leads_updated
                    + row.leads_skipped + row.errors_count)
    /\ []((http.status_code = 200 /\ "body" \in DOMAIN http) =>
            (http.body.leads_processed
               = http.body.leads_created + http.body.leads_updated
                 + http.body.leads_skipped + http.body.errors_count))

\* a committed run of three records: one created, one skipped, one in error
C25_Witness ==
    /\ Len(funnel_sync_logs) >= 1
    /\ funnel_sync_logs[1].leads_processed = 3
    /\ funnel_sync_logs[1].leads_created = 1
    /\ funnel_sync_logs[1].leads_skipped = 1
    /\ funnel_sync_logs[1].errors_count = 1

\* ------------------------------------------------------------------- C26
\* the SyncRun rows of one source
LogsOf(id) ==
    SelectSeq(funnel_sync_logs, LAMBDA row : row.funnel_source_id = id)

\* C26: whatever runs have committed with or without errors or have been
\* rolled back, the total_leads_captured of every source is its initial 0
\* plus the leads_created of its SyncRun rows, and the created counts of all
\* SyncRun rows add up to the number of signups in the store, which only
\* the runs insert.
C26_TotalIsSumOfCreated ==
    /\ \A id \in SourceIds :
         funnel_sources[id].total_leads_captured = Created(LogsOf(id))
    /\ Created(funnel_sync_logs) = Len(pending_signup_queue)

\* after a partial run that created two signups and a second committed run
C26_Witness ==
    /\ Len(LogsOf(1)) = 2
    /\ LogsOf(1)[1].sync_status = "partial"
    /\ LogsOf(1)[1].leads_created = 2
    /\ funnel_sources[1].total_leads_captured = 2
    /\ Len(pending_signup_queue) = 2

\* ------------------------------------------------------------------- C27
\* C27: the clock never going back, no step lowers the last_sync_at of a
\* source (null below every time); it changes at the commit of a run of that
\* source only, forced or not, and then to a time not before the run began.
C27_WatermarkMonotone ==
    [][/\ now' >= now
       /\ \A id \in SourceIds :
            /\ funnel_sources'[id].last_sync_at
                 >= funnel_sources[id].last_sync_at
            /\ (funnel_sources'[id].last_sync_at
                  # funnel_sources[id].last_sync_at) =>
                 (/\ pc = "commit"
                  /\ pc' = "idle"
                  /\ id = run.source_id
                  /\ funnel_sources'[id].last_sync_at >= run.started_at
                  /\ funnel_sources'[id].last_sync_at <= now)]_vars

\* a forced run whose window starts before the stored watermark is about to
\* commit a later watermark
C27_Witness ==
    /\ pc = "commit"
    /\ run.force_sync
    /\ funnel_sources[run.source_id].last_sync_at # NullTime
    /\ run.sync_from < funnel_sources[run.source_id].last_sync_at
    /\ SourceView(db, run.source_id).last_sync_at
         > funnel_sources[run.source_id].last_sync_at

\* ------------------------------------------------------------------- C28
\* the fields of a signup that no update may touch
Frame(row) ==
    <<row.id, row.email, row.company, row.user_type, row.status,
      row.created_at>>

\* C28: the UPDATE of an appointment leaves id, email, company, user_type,
\* status and created_at of every signup as they were and changes no signup
\* of another email; the commit of the run brings the same to the store
\* (rows the session did not update stay as they are), and a FunnelSource
\* row changes at the commit of a run of that very source only.
C28_UpdateFrame ==
    [][/\ (pc = "update" /\ pc' = "loop") =>
            (/\ Len(View') = Len(View)
             /\ \A n \in DOMAIN View :
                  /\ Frame(View'[n]) = Frame(View[n])
                  /\ (View[n].email # Lower(Appointment.email)) =>
                        (View'[n] = View[n]))
       /\ (pc = "commit" /\ pc' = "idle") =>
            (\A n \in DOMAIN pending_signup_queue :
               /\ Frame(pending_signup_queue'[n])
                    = Frame(pending_signup_queue[n])
               /\ (pending_signup_queue[n].id \notin IdsOf(db.upd)) =>
                     (pending_signup_queue'[n] = pending_signup_queue[n]))
       /\ \A id \in SourceIds :
            (funnel_sources'[id] # funnel_sources[id]) =>
               (pc = "commit" /\ id = run.source_id)]_vars

\* the session holds an updated version of one committed signup, with other
\* metadata and a later updated_at, next to a signup it did not update
C28_Witness ==
    /\ pc = "loop"
    /\ Len(pending_signup_queue) >= 2
    /\ \E n \in DOMAIN pending_signup_queue :
         /\ pending_signup_queue[n].id \in IdsOf(db.upd)
         /\ View[n].signup_metadata # pending_signup_queue[n].signup_metadata
         /\ View[n].updated_at > pending_signup_queue[n].updated_at
    /\ \E n \in DOMAIN pending_signup_queue :
         pending_signup_queue[n].id \notin IdsOf(db.upd)

\* ------------------------------------------------------------------- C29
\* C29: the sync_log_id in the answer of a committed run is the id of the
\* SyncRun row that the commit of that run has added.
C29_SyncLogIdIsAuditRow ==
    [][(pc = "commit" /\ pc' = "idle") =>
         (/\ http'.status_code = 200
          /\ Len(funnel_sync_logs') = Len(funnel_sync_logs) + 1
          /\ http'.body.sync_log_id
               = funnel_sync_logs'[Len(funnel_sync_logs')].id)]_vars

====
